---- MODULE Spec2Model ----
(***************************************************************************)
(* State-machine model of qutip/steadystate.py: the three entry points     *)
(* steadystate, build_preconditioner and pseudo_inverse, the conditioning  *)
(* helpers and the solver routines they dispatch to.                       *)
(*                                                                         *)
(* Numbers are integers.  A generator is a real 4x4 matrix (Hilbert-space  *)
(* dimension 2), vectors are sequences of length 4 in column-stacked       *)
(* order, None is the empty sequence and a present optional value x is     *)
(* <<x>>.  A density matrix is kept as a numerator matrix and a common     *)
(* denominator, so that 0.5*(X + X^T) and X/tr(X) stay exact.              *)
(* Library routines (liouvillian, sp_permute, the LU/Krylov/eigen/SVD      *)
(* solvers, the reordering heuristics) are modelled by their contract;     *)
(* where their outcome is not determined by the inputs (which ordering a   *)
(* heuristic returns, whether a factorization fails, which status a Krylov *)
(* solve ends with) the outcome is a nondeterministic choice.              *)
(***************************************************************************)
EXTENDS Integers, Sequences, FiniteSets, TLC

VARIABLES
    pc,           \* position of the running call ("idle" between calls)
    call,         \* the arguments of the running top-level call
    kwargs,       \* **kwargs of the running steadystate/build_preconditioner frame
    ss_args,      \* the option record of the running frame (with its info dict)
    pseudo_args,  \* the option record of a running pseudo_inverse
    A,            \* the operator the running frame works on (after setup: L)
    loc,          \* the solver routine's locals: L, b, v, perm, perm2, rev_perm, it, M
    calls,        \* how often each piece of matrix work has run in this call
    warned,       \* the warnings issued in this call
    result,       \* what the call returned or raised
    useUmfpack    \* scipy's module-level solver switch, set by use_solver

vars == <<pc, call, kwargs, ss_args, pseudo_args, A, loc, calls, warned,
          result, useUmfpack>>

(***************************************************************************)
(* Bounds of the model.                                                    *)
(***************************************************************************)
MaxIter == 2      \* the largest maxiter a caller passes to the power solver
MaxWeight == 2    \* the largest weight a caller passes

(***************************************************************************)
(* Values.                                                                 *)
(***************************************************************************)
None == << >>
Some(x) == << x >>

RECURSIVE SumSeq(_)
SumSeq(s) == IF s = << >> THEN 0 ELSE Head(s) + SumSeq(Tail(s))

Abs(x) == IF x < 0 THEN -x ELSE x

SetMax(S) == CHOOSE x \in S : \A y \in S : y <= x

\* Lindblad generator of a decaying two-level system (rate 2), acting on
\* (r00, r10, r01, r11), and a second singular generator whose null vector
\* has four nonzero entries.
GenDecay == << <<0, 0, 0, 2>>, <<0, -1, 0, 0>>, <<0, 0, -1, 0>>, <<0, 0, 0, -2>> >>
GenMixed == << <<0, 0, -1, -1>>, <<1, -2, 0, 0>>, <<0, 1, -1, 0>>, <<0, 0, 1, 1>> >>
\* A superoperator that is no Lindblad generator: its null vector
\* (1, 1, 0, 0) reshapes to a matrix that is not Hermitian.  issuper is all
\* _steadystate_setup asks of its input.
GenSkew == << <<-1, 1, 0, 0>>, <<1, -1, 0, 0>>, <<0, 0, 1, 0>>, <<0, 0, 0, -1>> >>
Gens == << GenDecay, GenMixed, GenSkew >>

Dim(M) == Len(M)
Idx == 1..Dim(GenDecay)
Sqrt(k) == CHOOSE r \in 0..k : r * r = k
Vecs == [Idx -> -1..2]

MatVec(M, x) == [i \in 1..Len(M) |-> SumSeq([j \in 1..Len(x) |-> M[i][j] * x[j]])]
VecSub(x, y) == [i \in 1..Len(x) |-> x[i] - y[i]]
VecScale(c, x) == [i \in 1..Len(x) |-> c * x[i]]
NormInf(x) == SetMax({Abs(x[i]) : i \in 1..Len(x)})
\* la.norm(x): kept squared, so that it stays an integer
norm(x) == SumSeq([i \in 1..Len(x) |-> x[i] * x[i]])
Zeros(k) == [i \in 1..k |-> 0]
Ones(k) == [i \in 1..k |-> 1]

Identity == [i \in Idx |-> i]
\* the orderings a reordering heuristic may return
Orderings == {Identity, <<4, 3, 2, 1>>, <<2, 3, 4, 1>>}

\* b[np.ix_(perm,)]
Take(x, p) == [i \in 1..Len(p) |-> x[p[i]]]
argsort(p) == [i \in 1..Len(p) |-> CHOOSE j \in 1..Len(p) : p[j] = i]
\* np.any(perm): perm holds 0-based indices
npAny(p) == p # None /\ \E i \in 1..Len(p) : p[i] - 1 # 0
\* qutip.sparse.sp_permute: B[i, j] = A[rperm[i], cperm[j]], an empty
\* permutation leaving that side alone
sp_permute(M, rperm, cperm) ==
    [i \in 1..Len(M) |->
        [j \in 1..Len(M) |->
            M[IF rperm = << >> THEN i ELSE rperm[i]]
             [IF cperm = << >> THEN j ELSE cperm[j]]]]

\* exact solve of a nonsingular system (splu(...).solve, spsolve,
\* np.linalg.solve, a converged Krylov solve)
LinSolve(M, rhs) == CHOOSE x \in Vecs : MatVec(M, x) = rhs
\* the null vector of trace one of a generator
NullVec(M) == CHOOSE x \in Vecs : MatVec(M, x) = Zeros(Len(M)) /\ x[1] + x[4] = 1

\* qutip.superoperator.vec2mat: column-stacked vector to matrix
vec2mat(x) ==
    LET n == Sqrt(Len(x))
    IN  [i \in 1..n |-> [j \in 1..n |-> x[(j - 1) * n + i]]]
Transpose(M) == [i \in 1..Len(M) |-> [j \in 1..Len(M) |-> M[j][i]]]
MatAdd(X, Y) == [i \in 1..Len(X) |-> [j \in 1..Len(X) |-> X[i][j] + Y[i][j]]]
Trace(M) == SumSeq([i \in 1..Len(M) |-> M[i][i]])
\* a matrix num/den
Qobj(num, den) == [num |-> num, den |-> den]
\* 0.5 * (data + data.conj().T), entries being real
Hermitize(data) == Qobj(MatAdd(data, Transpose(data)), 2)
\* out / out.tr()
DivTrace(q) == Qobj(q.num, Trace(q.num))

(***************************************************************************)
(* Options.                                                                *)
(***************************************************************************)
Put(f, k, val) == [x \in DOMAIN f \cup {k} |-> IF x = k THEN val ELSE f[x]]
Pop(f, k) == [x \in DOMAIN f \ {k} |-> f[x]]

_empty_info_dict ==
    [perm |-> << >>, solution_time |-> None, iterations |-> None,
     residual_norm |-> None, rcm_time |-> None, wbm_time |-> None,
     iter_time |-> None, precond_time |-> None, ILU_MILU |-> None,
     fill_factor |-> None, diag_pivot_thresh |-> None, drop_tol |-> None,
     permc_spec |-> None, weight |-> None]

\* tol and the residuals it is compared with are integers: the default
\* 1e-12 is 0, drop_tol and fill_factor are only passed through
_default_steadystate_args ==
    [method |-> "direct", sparse |-> TRUE, use_rcm |-> FALSE,
     use_wbm |-> FALSE, use_umfpack |-> FALSE, weight |-> None,
     use_precond |-> FALSE, all_states |-> FALSE, M |-> "None", x0 |-> None,
     drop_tol |-> "1e-4", fill_factor |-> 100, diag_pivot_thresh |-> None,
     maxiter |-> 1000, tol |-> 0, permc_spec |-> "COLAMD",
     ILU_MILU |-> "smilu_2", restart |-> 20, return_info |-> FALSE,
     info |-> _empty_info_dict]

Keys == DOMAIN _default_steadystate_args

Methods == {"direct", "eigen", "iterative-gmres", "iterative-lgmres",
            "iterative-bicgstab", "svd", "power", "power-gmres",
            "power-lgmres", "power-bicgstab"}
IterativeMethods == {"iterative-gmres", "iterative-lgmres", "iterative-bicgstab"}
PowerMethods == {"power", "power-gmres", "power-lgmres", "power-bicgstab"}
PowerKrylovMethods == {"power-gmres", "power-lgmres", "power-bicgstab"}

\* for key in kwargs: ss_args[key] = kwargs[key]
Override(args, kw) == [k \in DOMAIN args |-> IF k \in DOMAIN kw THEN kw[k] ELSE args[k]]

(***************************************************************************)
(* The state between calls.                                                *)
(***************************************************************************)
NoCall == [fn |-> "none"]
NoResult == [status |-> "none"]
NoLoc == [routine |-> "none"]
Work == {"liouvillian", "inspect", "weight", "LU_liouvillian",
         "power_liouvillian", "precondition", "splu", "spsolve",
         "dense_solve", "eigs", "linalg_svd", "krylov", "pinv_solve"}
Routines == {"direct_sparse", "direct_dense", "eigen", "iterative", "svd", "power"}
NoCalls == [w \in Work \cup Routines |-> 0]
Count(c, w) == [c EXCEPT ![w] = @ + 1]

Init ==
    /\ pc = "idle"
    /\ call = NoCall
    /\ kwargs = << >>
    /\ ss_args = << >>
    /\ pseudo_args = << >>
    /\ A = << >>
    /\ loc = NoLoc
    /\ calls = NoCalls
    /\ warned = {}
    /\ result = NoResult
    /\ useUmfpack = FALSE


(***************************************************************************)
(* Results.                                                                *)
(***************************************************************************)
\* return value (and info when the routine returns a pair: info # None)
Returned(value, info) == [status |-> "returned", value |-> value, info |-> info]
Raised(type, msg, payload) ==
    [status |-> "raised", type |-> type, msg |-> msg, payload |-> payload]

\* A steadystate frame ends: its caller is the user, or pseudo_inverse,
\* which goes on with the value returned (an exception propagates).
Finish(r) ==
    /\ result' = r
    /\ pc' = IF call.fn = "pseudo_inverse" /\ r.status = "returned"
             THEN "pi_solve" ELSE "done"

(***************************************************************************)
(* Operators (Qobj): a type tag and the generator it stands for.           *)
(***************************************************************************)
isoper(X) == X.type = "oper"
issuper(X) == X.type = "super"
\* qutip.superoperator.liouvillian(H, c_op_list)
liouvillian(H, c_op_list) == [type |-> "super", g |-> H.g]
data(X) == Gens[X.g]

RECURSIVE Flatten(_)
Flatten(rows) == IF rows = << >> THEN << >> ELSE Head(rows) \o Flatten(Tail(rows))
IsNonzero(x) == x # 0
\* L.data.data: the stored (nonzero) entries
StoredEntries(M) == SelectSeq(Flatten(M), IsNonzero)
SeqMax(s) == SetMax({s[i] : i \in 1..Len(s)})
\* np.mean(np.abs(A.data.data.max()))
DefaultWeight(M) == Abs(SeqMax(StoredEntries(M)))

(***************************************************************************)
(* steadystate, lines 205-247.                                             *)
(***************************************************************************)
\* Set column perm to NATURAL if using RCM and not specified by user
\* A matrix object as far as aliasing goes: who holds it and its storage
\* format.  Qobj.data is always a csr matrix.  For a superoperator
\* _steadystate_setup returns the caller's own Qobj (line 261), for an
\* operator the Qobj liouvillian has just built (line 255); pseudo_inverse
\* hands its routines the caller's L as it is (lines 1046-1051).
Private(format) == [holder |-> "private", format |-> format]
Holder == [holder |-> IF issuper(call.A) THEN "caller" ELSE "private",
           format |-> "csr"]

\* todense handing back the matrix it was called on instead of a new one
todense_View(obj) == obj

\* csr_matrix.tocsc() returns the matrix itself only when it is csc already;
\* .todense() and the sum or difference of two sparse matrices always build
\* a new object, whoever holds the operands
tocsc(obj) == IF obj.format = "csc" THEN obj ELSE Private("csc")
todense(obj) == Private("dense")
sp_add(obj) == Private(obj.format)

\* the objects a routine has written to in place so far
Written(l) == IF "written" \in DOMAIN l THEN l.written ELSE {}

\* PermcDefault without the test whether the caller passed permc_spec
PermcDefault_IgnoresCaller(args, kw) ==
    IF args.use_rcm THEN [args EXCEPT !.permc_spec = "NATURAL"] ELSE args

PermcDefault(args, kw) ==
    IF args.use_rcm /\ "permc_spec" \notin DOMAIN kw
    THEN [args EXCEPT !.permc_spec = "NATURAL"]
    ELSE args

UnknownKeys(kw) == DOMAIN kw \ Keys

\* steadystate_args without the else branch that rejects an unknown key
steadystate_args_NoKeyCheck ==
    /\ pc = "ss_args"
    /\ ss_args' = PermcDefault(Override(_default_steadystate_args, kwargs), kwargs)
    /\ pc' = "ss_setup"
    /\ UNCHANGED <<call, kwargs, pseudo_args, A, loc, calls, warned, result,
                   useUmfpack>>

steadystate_args ==
    /\ pc = "ss_args"
    /\ IF UnknownKeys(kwargs) # {}
       THEN /\ Finish(Raised("Exception", "invalid_kwarg", None))
            /\ UNCHANGED ss_args
       ELSE /\ ss_args' = PermcDefault(Override(_default_steadystate_args, kwargs), kwargs)
            /\ pc' = "ss_setup"
            /\ UNCHANGED result
    /\ UNCHANGED <<call, kwargs, pseudo_args, A, loc, calls, warned, useUmfpack>>

\* _steadystate_setup without the test for an empty collapse-operator list
_steadystate_setup_NoListCheck(X, c_op_list) ==
    IF isoper(X)
    THEN [ok |-> TRUE, L |-> liouvillian(X, c_op_list), built |-> 1]
    ELSE IF issuper(X)
         THEN [ok |-> TRUE, L |-> X, built |-> 0]
         ELSE [ok |-> FALSE, msg |-> "not_super"]

\* _steadystate_setup, lines 250-264
_steadystate_setup(X, c_op_list) ==
    IF isoper(X)
    THEN IF c_op_list > 0
         THEN [ok |-> TRUE, L |-> liouvillian(X, c_op_list), built |-> 1]
         ELSE [ok |-> FALSE, msg |-> "non_dissipative"]
    ELSE IF issuper(X)
         THEN [ok |-> TRUE, L |-> X, built |-> 0]
         ELSE [ok |-> FALSE, msg |-> "not_super"]

steadystate_setup ==
    /\ pc = "ss_setup"
    /\ LET s == _steadystate_setup(A, call.c_op_list)
       IN  IF s.ok
           THEN /\ A' = s.L
                /\ calls' = [calls EXCEPT !["inspect"] = @ + 1,
                                          !["liouvillian"] = @ + s.built]
                /\ pc' = "ss_weight"
                /\ UNCHANGED result
           ELSE /\ calls' = Count(calls, "inspect")
                /\ Finish(Raised("TypeError", s.msg, None))
                /\ UNCHANGED A
    /\ UNCHANGED <<call, kwargs, ss_args, pseudo_args, loc, warned, useUmfpack>>

\* Set weight parameter to avg abs val in L if not set explicitly
steadystate_weight ==
    /\ pc = "ss_weight"
    /\ IF "weight" \notin DOMAIN kwargs
       THEN /\ ss_args' = [ss_args EXCEPT
                              !.weight = Some(DefaultWeight(data(A))),
                              !.info.weight = Some(DefaultWeight(data(A)))]
            /\ calls' = Count(calls, "weight")
       ELSE UNCHANGED <<ss_args, calls>>
    /\ pc' = "ss_dispatch"
    /\ UNCHANGED <<call, kwargs, pseudo_args, A, loc, warned, result, useUmfpack>>

\* Dispatch with the sparse flag ignored
Dispatch_IgnoresSparse(args) ==
    IF args.method = "direct" THEN "direct_sparse"
    ELSE IF args.method = "eigen" THEN "eigen"
    ELSE IF args.method \in IterativeMethods THEN "iterative"
    ELSE IF args.method = "svd" THEN "svd"
    ELSE IF args.method \in PowerMethods THEN "power"
    ELSE "none"

\* the routine lines 226-247 select
Dispatch(args) ==
    IF args.method = "direct"
    THEN IF args.sparse THEN "direct_sparse" ELSE "direct_dense"
    ELSE IF args.method = "eigen" THEN "eigen"
    ELSE IF args.method \in IterativeMethods THEN "iterative"
    ELSE IF args.method = "svd" THEN "svd"
    ELSE IF args.method \in PowerMethods THEN "power"
    ELSE "none"

steadystate_dispatch ==
    /\ pc = "ss_dispatch"
    /\ LET r == Dispatch(ss_args)
       IN  IF r # "none"
           THEN /\ pc' = r
                /\ calls' = Count(calls, r)
                /\ UNCHANGED result
           ELSE /\ Finish(Raised("ValueError", "invalid_method", None))
                /\ UNCHANGED calls
    /\ UNCHANGED <<call, kwargs, ss_args, pseudo_args, A, loc, warned, useUmfpack>>


(***************************************************************************)
(* Conditioning, lines 267-318, and the preconditioner, lines 471-520.     *)
(***************************************************************************)
\* what the reordering heuristics may return when they are asked
WbmChoices(args) == IF args.use_wbm THEN Orderings ELSE {None}
RcmChoices(args) == IF args.use_rcm THEN Orderings ELSE {None}

\* sp.csc_matrix((weight*ones(n), (zeros(n), [nn*(n+1) for nn in range(n)])))
WeightRow(N, weight) ==
    LET n == Sqrt(N)
    IN  [i \in 1..N |-> [j \in 1..N |->
            IF i = 1 /\ (\E nn \in 0..(n - 1) : j = nn * (n + 1) + 1)
            THEN weight ELSE 0]]

\* wbm, rcm: the orderings weighted_bipartite_matching and
\* reverse_cuthill_mckee return
_steadystate_LU_liouvillian(L, args, wbm, rcm) ==
    LET L0 == MatAdd(L, WeightRow(Len(L), args.weight[1]))
        perm == IF args.use_wbm THEN wbm ELSE None
        L1 == IF args.use_wbm THEN sp_permute(L0, perm, << >>) ELSE L0
        info1 == IF args.use_wbm
                 THEN [args.info EXCEPT !.perm = Append(@, "wbm"),
                                        !.wbm_time = Some("t")]
                 ELSE args.info
        perm2 == IF args.use_rcm THEN rcm ELSE None
        rev_perm == IF args.use_rcm THEN argsort(perm2) ELSE None
        L2 == IF args.use_rcm THEN sp_permute(L1, perm2, perm2) ELSE L1
        info2 == IF args.use_rcm
                 THEN [info1 EXCEPT !.perm = Append(@, "rcm"),
                                    !.rcm_time = Some("t")]
                 ELSE info1
    IN  [L |-> L2, perm |-> perm, perm2 |-> perm2, rev_perm |-> rev_perm,
         ss_args |-> [args EXCEPT !.info = info2]]

\* b = np.zeros(n ** 2); b[0] = ss_args['weight']
Rhs(N, weight) == [i \in 1..N |-> IF i = 1 THEN weight ELSE 0]

\* if np.any(perm): b = b[np.ix_(perm,)]; if np.any(perm2): b = b[np.ix_(perm2,)]
PermuteRhs(b, perm, perm2) ==
    LET b1 == IF npAny(perm) THEN Take(b, perm) ELSE b
    IN  IF npAny(perm2) THEN Take(b1, perm2) ELSE b1

\* the solver parameters every LU-based routine copies into info
InfoParams(info, args) ==
    [info EXCEPT !.permc_spec = Some(args.permc_spec),
                 !.drop_tol = Some(args.drop_tol),
                 !.diag_pivot_thresh = args.diag_pivot_thresh,
                 !.fill_factor = Some(args.fill_factor),
                 !.ILU_MILU = Some(args.ILU_MILU)]

\* the try block of _iterative_precondition when spilu succeeds
\* (_scipy_check holds: the factors' fill is recorded with return_info)
_iterative_precondition(args) ==
    LET info1 == [InfoParams(args.info, args) EXCEPT !.precond_time = Some("t")]
        info2 == IF args.return_info
                 THEN Put(Put(Put(Put(info1, "l_nnz", Some("nnz")),
                                  "u_nnz", Some("nnz")),
                              "ilu_fill_factor", Some("fill")),
                          "ilu_condest", Some("condest"))
                 ELSE info1
    IN  [M |-> "ILU", ss_args |-> [args EXCEPT !.info = info2]]

\* use_solver leaving the module-level switch as it found it
use_solver_KeepsCurrent(current, kw) == current

\* scipy.sparse.linalg.use_solver(**kw): the module-level switch afterwards
use_solver(current, kw) ==
    IF "useUmfpack" \in DOMAIN kw THEN kw.useUmfpack ELSE current

\* the factorization spsolve runs with: UMFPACK when the switch is set
spsolve(switch) == IF switch THEN "umfpack" ELSE "superlu"

(***************************************************************************)
(* _steadystate_direct_sparse, lines 332-395.                              *)
(***************************************************************************)
_steadystate_direct_sparse ==
    /\ pc = "direct_sparse"
    /\ IF ss_args.weight = None
       THEN \* b[0] = None
            /\ Finish(Raised("TypeError", "weight_none", None))
            /\ UNCHANGED <<ss_args, loc, calls, useUmfpack>>
       ELSE \E wbm \in WbmChoices(ss_args), rcm \in RcmChoices(ss_args) :
            \E c \in {_steadystate_LU_liouvillian(data(A), ss_args, wbm, rcm)} :
            \E b \in {PermuteRhs(Rhs(Len(c.L), ss_args.weight[1]), c.perm, c.perm2)} :
            \E x \in {LinSolve(c.L, b)} :
            LET info1 == [InfoParams(c.ss_args.info, ss_args)
                             EXCEPT !.solution_time = Some("t")]
                info2 == IF ~ss_args.use_umfpack /\ ss_args.return_info
                         THEN Put(Put(Put(info1, "l_nnz", Some("nnz")),
                                      "u_nnz", Some("nnz")),
                                  "lu_fill_factor", Some("fill"))
                         ELSE info1
                info3 == IF ss_args.return_info
                         THEN [info2 EXCEPT !.residual_norm =
                                  Some(norm(VecSub(b, MatVec(c.L, x))))]
                         ELSE info2
                v == IF ~ss_args.use_umfpack /\ ss_args.use_rcm
                     THEN Take(x, c.rev_perm) ELSE x
                dm == Hermitize(vec2mat(v))
                switch == use_solver(useUmfpack,
                                     [assumeSortedIndices |-> TRUE,
                                      useUmfpack |-> ss_args.use_umfpack])
            IN  /\ useUmfpack' = switch
                /\ ss_args' = [ss_args EXCEPT !.info = info3]
                /\ loc' = [routine |-> "direct_sparse", L |-> c.L, b |-> b,
                           v |-> x, out |-> v, perm |-> c.perm, perm2 |-> c.perm2,
                           rev_perm |-> c.rev_perm,
                           \* L.sort_indices(), line 317
                           written |-> {sp_add(tocsc(Holder))},
                           solver |-> IF ss_args.use_umfpack
                                      THEN spsolve(switch) ELSE "splu"]
                /\ calls' = [calls EXCEPT
                                !["LU_liouvillian"] = @ + 1,
                                ![IF ss_args.use_umfpack THEN "spsolve" ELSE "splu"] = @ + 1]
                /\ Finish(Returned(dm, IF ss_args.return_info
                                       THEN Some(info3) ELSE None))
    /\ UNCHANGED <<call, kwargs, pseudo_args, A, warned>>

(***************************************************************************)
(* _steadystate_direct_dense, lines 398-422.                               *)
(***************************************************************************)
\* L[0, :] = np.diag(weight*np.ones(n)).reshape((1, n ** 2))
DenseConditioned(L, weight) ==
    [i \in 1..Len(L) |-> IF i = 1 THEN WeightRow(Len(L), weight)[1] ELSE L[i]]

_steadystate_direct_dense ==
    /\ pc = "direct_dense"
    /\ IF ss_args.weight = None
       THEN /\ Finish(Raised("TypeError", "weight_none", None))
            /\ UNCHANGED <<ss_args, loc, calls>>
       ELSE \E b \in {Rhs(Len(data(A)), ss_args.weight[1])} :
            \E L \in {DenseConditioned(data(A), ss_args.weight[1])} :
            \E v \in {LinSolve(L, b)} :
            LET info1 == [ss_args.info EXCEPT !.solution_time = Some("t")]
                info2 == IF ss_args.return_info
                         THEN [info1 EXCEPT !.residual_norm =
                                  Some(norm(VecSub(b, MatVec(L, v))))]
                         ELSE info1
                dm == Hermitize(vec2mat(v))
            IN  /\ ss_args' = [ss_args EXCEPT !.info = info2]
                /\ loc' = [routine |-> "direct_dense", L |-> L, b |-> b,
                           v |-> v, out |-> v, perm |-> None, perm2 |-> None,
                           rev_perm |-> None,
                           \* L[0, :] = ..., line 412
                           written |-> {todense(Holder)}]
                /\ calls' = Count(calls, "dense_solve")
                /\ Finish(Returned(dm, None))
    /\ UNCHANGED <<call, kwargs, pseudo_args, A, warned, useUmfpack>>


(***************************************************************************)
(* _steadystate_eigen, lines 425-468.                                      *)
(***************************************************************************)
\* an eigenvector or singular vector is fixed up to a factor
Scales == {1, -1}

_steadystate_eigen ==
    /\ pc = "eigen"
    /\ \E rcm \in RcmChoices(ss_args), converged \in BOOLEAN, s \in Scales :
        \E null \in {NullVec(data(A))} :
        LET info0 == Pop(ss_args.info, "weight")
            info1 == IF ss_args.use_rcm
                     THEN [info0 EXCEPT !.perm = Append(@, "rcm")] ELSE info0
            perm == IF ss_args.use_rcm THEN rcm ELSE None
            rev_perm == IF ss_args.use_rcm THEN argsort(perm) ELSE None
            L == IF ss_args.use_rcm THEN sp_permute(data(A), perm, perm)
                 ELSE data(A)
            \* eigs(L, k=1, sigma=1e-15): the null vector of L
            eigvec == LET x == VecScale(s, null)
                      IN  IF ss_args.use_rcm THEN Take(x, perm) ELSE x
            info2 == [info1 EXCEPT !.solution_time = Some("t")]
            info3 == IF ss_args.return_info
                     THEN [info2 EXCEPT !.residual_norm =
                              Some(norm(MatVec(L, eigvec)))]
                     ELSE info2
            v == IF ss_args.use_rcm THEN Take(eigvec, rev_perm) ELSE eigvec
            out == Hermitize(vec2mat(v))
        IN  /\ calls' = Count(calls, "eigs")
            /\ IF converged
               THEN /\ ss_args' = [ss_args EXCEPT !.info = info3]
                    /\ loc' = [routine |-> "eigen", L |-> L, b |-> None,
                               v |-> eigvec, out |-> v, perm |-> None, perm2 |-> perm,
                               rev_perm |-> rev_perm, written |-> {}]
                    /\ Finish(Returned(DivTrace(out),
                                       IF ss_args.return_info
                                       THEN Some(info3) ELSE None))
               ELSE \* eigs raises ArpackNoConvergence
                    /\ ss_args' = [ss_args EXCEPT !.info = info1]
                    /\ UNCHANGED loc
                    /\ Finish(Raised("ArpackNoConvergence", "eigs", None))
    /\ UNCHANGED <<call, kwargs, pseudo_args, A, warned, useUmfpack>>

(***************************************************************************)
(* _steadystate_iterative, lines 523-608.                                  *)
(***************************************************************************)
\* the status gmres, lgmres and bicgstab end with
KrylovStatus == {-1, 0, 1}

_steadystate_iterative ==
    /\ pc = "iterative"
    /\ IF ss_args.weight = None
       THEN /\ Finish(Raised("TypeError", "weight_none", None))
            /\ UNCHANGED <<ss_args, loc, calls, warned, useUmfpack>>
       ELSE \E wbm \in WbmChoices(ss_args), rcm \in RcmChoices(ss_args),
               spilu_fails \in BOOLEAN, check \in KrylovStatus :
            \E c \in {_steadystate_LU_liouvillian(data(A), ss_args, wbm, rcm)} :
            \E b \in {PermuteRhs(Rhs(Len(c.L), ss_args.weight[1]), c.perm, c.perm2)} :
            LET build == ss_args.M = "None" /\ ss_args.use_precond
            IN  /\ useUmfpack' = use_solver(useUmfpack,
                                             [assumeSortedIndices |-> TRUE,
                                              useUmfpack |-> ss_args.use_umfpack])
                /\ IF build /\ spilu_fails
                   THEN \* the except clause of _iterative_precondition
                        /\ ss_args' = c.ss_args
                        /\ calls' = [calls EXCEPT !["LU_liouvillian"] = @ + 1,
                                                  !["precondition"] = @ + 1]
                        /\ UNCHANGED <<loc, warned>>
                        /\ Finish(Raised("Exception", "precond_failed", None))
                   ELSE
                    \* the iterate the Krylov solver hands back
                    \E x \in {IF check = 0 THEN LinSolve(c.L, b)
                              ELSE IF ss_args.x0 = None THEN Zeros(Len(b))
                              ELSE ss_args.x0} :
                    LET p == IF build THEN _iterative_precondition(c.ss_args)
                             ELSE [M |-> ss_args.M, ss_args |-> c.ss_args]
                        info1 == [p.ss_args.info EXCEPT
                                     !.iter_time = Some("t"),
                                     !.solution_time = Some("t"),
                                     !.iterations = Some("iter")]
                        info2 == IF ss_args.return_info
                                 THEN [info1 EXCEPT !.residual_norm =
                                          Some(norm(VecSub(b, MatVec(c.L, x))))]
                                 ELSE info1
                        v == IF ss_args.use_rcm THEN Take(x, c.rev_perm) ELSE x
                        dm == Hermitize(vec2mat(v))
                    IN  /\ ss_args' = [p.ss_args EXCEPT !.M = p.M, !.info = info2]
                        /\ warned' = IF build /\ p.M = "None"
                                     THEN warned \cup {"Preconditioning failed. Continuing without."}
                                     ELSE warned
                        /\ calls' = [calls EXCEPT
                                        !["LU_liouvillian"] = @ + 1,
                                        !["precondition"] = @ + (IF build THEN 1 ELSE 0),
                                        !["krylov"] = @ + 1]
                        /\ loc' = [routine |-> "iterative", L |-> c.L, b |-> b,
                                   v |-> x, out |-> v,
                                   perm |-> c.perm, perm2 |-> c.perm2,
                                   rev_perm |-> c.rev_perm,
                                   written |-> {sp_add(tocsc(Holder))},
                                   krylov |-> [M |-> p.M, x0 |-> ss_args.x0,
                                               check |-> check]]
                        /\ IF check > 0
                           THEN Finish(Raised("Exception", "not_converged",
                                              info2.residual_norm))
                           ELSE IF check < 0
                           THEN Finish(Raised("Exception", "fatal", Some(check)))
                           ELSE Finish(Returned(dm, IF ss_args.return_info
                                                    THEN Some(info2) ELSE None))
    /\ UNCHANGED <<call, kwargs, pseudo_args, A>>

(***************************************************************************)
(* _steadystate_svd_dense, lines 611-642.                                  *)
(***************************************************************************)
_steadystate_svd_dense ==
    /\ pc = "svd"
    /\ \E s \in Scales :
        \E null \in {NullVec(data(A))} :
        LET info0 == Pop(ss_args.info, "weight")
            \* vh[nnz:].conj().T: the right-singular vectors of the null space
            ns == << VecScale(s, null) >>
            info1 == [info0 EXCEPT !.solution_time = Some("t")]
            rhoss_list == [k \in 1..Len(ns) |-> DivTrace(Qobj(vec2mat(ns[k]), 1))]
        IN  /\ ss_args' = [ss_args EXCEPT !.info = info1]
            /\ calls' = Count(calls, "linalg_svd")
            /\ loc' = [routine |-> "svd", L |-> data(A), b |-> None,
                       v |-> ns[1], out |-> ns[1],
                       perm |-> None, perm2 |-> None, rev_perm |-> None,
                       written |-> {}]
            /\ IF ss_args.all_states
               THEN Finish(Returned(rhoss_list, IF ss_args.return_info
                                                THEN Some(info1) ELSE None))
               ELSE Finish(Returned(rhoss_list[1], None))
    /\ UNCHANGED <<call, kwargs, pseudo_args, A, warned, useUmfpack>>


(***************************************************************************)
(* _steadystate_power_liouvillian and _steadystate_power, lines 645-803.   *)
(***************************************************************************)
\* The shift -1e-15 * I is below the resolution of the integer entries.
_steadystate_power_liouvillian(L, args, wbm, rcm) ==
    LET perm == IF args.use_wbm THEN wbm ELSE None
        L1 == IF args.use_wbm THEN sp_permute(L, perm, << >>) ELSE L
        info1 == IF args.use_wbm
                 THEN [args.info EXCEPT !.perm = Append(@, "wbm"),
                                        !.wbm_time = Some("t")]
                 ELSE args.info
        perm2 == IF args.use_rcm THEN rcm ELSE None
        rev_perm == IF args.use_rcm THEN argsort(perm2) ELSE None
        L2 == IF args.use_rcm THEN sp_permute(L1, perm2, perm2) ELSE L1
        info2 == IF args.use_rcm
                 THEN [info1 EXCEPT !.perm = Append(@, "rcm"),
                                    !.rcm_time = Some("t")]
                 ELSE info1
    IN  [L |-> L2, perm |-> perm, perm2 |-> perm2, rev_perm |-> rev_perm,
         ss_args |-> [args EXCEPT !.info = info2]]

\* lines 701-751: everything before the while loop
_steadystate_power_start ==
    /\ pc = "power"
    /\ \E wbm \in WbmChoices(ss_args), rcm \in RcmChoices(ss_args),
          spilu_fails \in BOOLEAN :
        LET args0 == [ss_args EXCEPT !.info = Pop(@, "weight")]
            c == _steadystate_power_liouvillian(data(A), args0, wbm, rcm)
            ones == Ones(Len(c.L))
            v == IF ss_args.use_rcm THEN Take(ones, c.perm2) ELSE ones
            build == /\ ss_args.M = "None"
                     /\ ss_args.use_precond
                     /\ ss_args.method \in PowerKrylovMethods
            p == IF build THEN _iterative_precondition(c.ss_args)
                 ELSE [M |-> ss_args.M, ss_args |-> c.ss_args]
        IN  IF build /\ spilu_fails
            THEN /\ ss_args' = c.ss_args
                 /\ calls' = [calls EXCEPT !["power_liouvillian"] = @ + 1,
                                           !["precondition"] = @ + 1]
                 /\ UNCHANGED <<loc, warned>>
                 /\ Finish(Raised("Exception", "precond_failed", None))
            ELSE /\ ss_args' = [p.ss_args EXCEPT !.M = p.M]
                 /\ warned' = IF build /\ p.M = "None"
                              THEN warned \cup {"Preconditioning failed. Continuing without."}
                              ELSE warned
                 /\ calls' = [calls EXCEPT
                                 !["power_liouvillian"] = @ + 1,
                                 !["precondition"] = @ + (IF build THEN 1 ELSE 0),
                                 !["splu"] = @ + (IF ss_args.method = "power"
                                                  THEN 1 ELSE 0)]
                 /\ loc' = [routine |-> "power", L |-> c.L, b |-> None,
                            v |-> v, out |-> None,
                            perm |-> c.perm, perm2 |-> c.perm2,
                            rev_perm |-> c.rev_perm, it |-> 0, checks |-> {},
                            \* L.sort_indices(), line 692
                            written |-> {sp_add(tocsc(Holder))}]
                 /\ pc' = "power_loop"
                 /\ UNCHANGED result
    \* use_solver(assumeSortedIndices=True), line 707
    /\ useUmfpack' = use_solver(useUmfpack, [assumeSortedIndices |-> TRUE])
    /\ UNCHANGED <<call, kwargs, pseudo_args, A>>

\* la.norm(L * v, np.inf) > tol
PowerUnconverged(L, v, tol) == NormInf(MatVec(L, v)) > tol

\* while (la.norm(L * v, np.inf) > tol) and (it < maxiter)
PowerContinue(L, v, tol, it, maxiter) ==
    PowerUnconverged(L, v, tol) /\ it < maxiter

\* What a refinement (an exact or Krylov solve against the iterate, scaled
\* by its infinity norm) may produce: the iterate it was given, or the null
\* vector of the working matrix.
Refinements(L, v) ==
    {v} \cup {y \in Vecs : MatVec(L, y) = Zeros(Len(L)) /\ NormInf(y) = 1}

\* one pass of the loop body, lines 755-773
_steadystate_power_step ==
    /\ pc = "power_loop"
    /\ PowerContinue(loc.L, loc.v, ss_args.tol, loc.it, ss_args.maxiter)
    /\ \E y \in Refinements(loc.L, loc.v),
          check \in (IF ss_args.method = "power" THEN {0} ELSE KrylovStatus) :
        /\ loc' = [loc EXCEPT !.v = y, !.it = @ + 1,
                              !.checks = IF ss_args.method = "power"
                                         THEN @ ELSE @ \cup {check}]
        /\ calls' = IF ss_args.method = "power" THEN calls
                    ELSE Count(calls, "krylov")
    /\ UNCHANGED <<pc, call, kwargs, ss_args, pseudo_args, A, warned, result,
                   useUmfpack>>

\* if it >= maxiter: raise
PowerFailed(it, maxiter) == it >= maxiter

\* 0.5 * (data + data.conj().T) of data = v / sum(trow.dot(v))
PowerDensity(v) ==
    LET m == vec2mat(v)
    IN  Qobj(MatAdd(m, Transpose(m)), 2 * Trace(m))

\* the loop has ended: lines 774-803
_steadystate_power_finish ==
    /\ pc = "power_loop"
    /\ ~PowerContinue(loc.L, loc.v, ss_args.tol, loc.it, ss_args.maxiter)
    /\ IF PowerFailed(loc.it, ss_args.maxiter)
       THEN /\ Finish(Raised("Exception", "power_failed", None))
            /\ UNCHANGED <<ss_args, loc>>
       ELSE LET info1 == [ss_args.info EXCEPT !.solution_time = Some("t"),
                                              !.iterations = Some(loc.it)]
                info2 == IF ss_args.return_info
                         THEN [info1 EXCEPT !.residual_norm =
                                  Some(norm(MatVec(loc.L, loc.v)))]
                         ELSE info1
                v == IF ss_args.use_rcm THEN Take(loc.v, loc.rev_perm)
                     ELSE loc.v
            IN  /\ ss_args' = [ss_args EXCEPT !.info = info2]
                /\ loc' = [loc EXCEPT !.out = v]
                /\ Finish(Returned(PowerDensity(v),
                                   IF ss_args.return_info
                                   THEN Some(info2) ELSE None))
    /\ UNCHANGED <<call, kwargs, pseudo_args, A, calls, warned, useUmfpack>>


(***************************************************************************)
(* build_preconditioner, lines 877-909.                                    *)
(***************************************************************************)
build_preconditioner_args ==
    /\ pc = "bp_args"
    /\ IF UnknownKeys(kwargs) # {}
       THEN /\ result' = Raised("Exception", "invalid_kwarg", None)
            /\ pc' = "done"
            /\ UNCHANGED ss_args
       ELSE /\ ss_args' = PermcDefault(
                              Override([_default_steadystate_args
                                           EXCEPT !.method = "iterative"], kwargs),
                              kwargs)
            /\ pc' = "bp_build"
            /\ UNCHANGED result
    /\ UNCHANGED <<call, kwargs, pseudo_args, A, loc, calls, warned, useUmfpack>>

build_preconditioner_build ==
    /\ pc = "bp_build"
    /\ pc' = "done"
    /\ LET s == _steadystate_setup(A, call.c_op_list)
       IN  IF ~s.ok
           THEN /\ calls' = Count(calls, "inspect")
                /\ result' = Raised("TypeError", s.msg, None)
                /\ UNCHANGED <<ss_args, A, loc>>
           ELSE
            \E wbm \in WbmChoices(ss_args), rcm \in RcmChoices(ss_args),
               spilu_fails \in BOOLEAN :
            LET derive == "weight" \notin DOMAIN kwargs
                args1 == IF derive
                         THEN [ss_args EXCEPT
                                  !.weight = Some(DefaultWeight(data(s.L))),
                                  !.info.weight = Some(DefaultWeight(data(s.L)))]
                         ELSE ss_args
                done1 == [calls EXCEPT !["inspect"] = @ + 1,
                                       !["liouvillian"] = @ + s.built,
                                       !["weight"] = @ + (IF derive THEN 1 ELSE 0)]
            IN  /\ A' = s.L
                /\ IF args1.method \notin {"iterative", "power"}
                   THEN /\ result' = Raised("Exception", "invalid_precond_method", None)
                        /\ ss_args' = args1
                        /\ calls' = done1
                        /\ UNCHANGED loc
                   ELSE IF args1.method = "iterative" /\ args1.weight = None
                   THEN \* None * np.ones(n)
                        /\ result' = Raised("TypeError", "weight_none", None)
                        /\ ss_args' = args1
                        /\ calls' = done1
                        /\ UNCHANGED loc
                   ELSE
                    LET c == IF args1.method = "iterative"
                             THEN _steadystate_LU_liouvillian(data(s.L), args1, wbm, rcm)
                             ELSE _steadystate_power_liouvillian(data(s.L), args1, wbm, rcm)
                        p == _iterative_precondition(c.ss_args)
                    IN  /\ calls' = [done1 EXCEPT
                                        ![IF args1.method = "iterative"
                                          THEN "LU_liouvillian"
                                          ELSE "power_liouvillian"] = @ + 1,
                                        !["precondition"] = @ + 1]
                        /\ loc' = [routine |-> "build_preconditioner", L |-> c.L,
                                   b |-> None, v |-> None, out |-> None,
                                   perm |-> c.perm, perm2 |-> c.perm2,
                                   rev_perm |-> c.rev_perm,
                                   written |-> {sp_add(tocsc(Holder))}]
                        /\ IF spilu_fails
                           THEN /\ ss_args' = c.ss_args
                                /\ result' = Raised("Exception", "precond_failed", None)
                           ELSE /\ ss_args' = p.ss_args
                                /\ result' = Returned(p.M,
                                                 IF args1.return_info
                                                 THEN Some(p.ss_args.info)
                                                 ELSE None)
    /\ UNCHANGED <<call, kwargs, pseudo_args, warned, useUmfpack>>

(***************************************************************************)
(* pseudo_inverse, lines 912-1057.                                         *)
(***************************************************************************)
SparsePinvMethods == {"spsolve", "splu", "spilu"}
DensePinvMethods == {"direct", "numpy", "scipy", "scipy2"}

\* lines 1038-1051
pseudo_inverse_args ==
    /\ pc = "pi_args"
    /\ IF UnknownKeys(call.kwargs) # {}
       THEN /\ result' = Raised("Exception", "invalid_kwarg", None)
            /\ pc' = "done"
            /\ UNCHANGED <<pseudo_args, kwargs>>
       ELSE LET args == PermcDefault(
                            Override(_default_steadystate_args, call.kwargs),
                            call.kwargs)
            IN  /\ pseudo_args' = args
                /\ IF call.rhoss = None
                   THEN \* rhoss = steadystate(L, **pseudo_args)
                        /\ kwargs' = args
                        /\ pc' = "ss_args"
                        /\ UNCHANGED result
                   ELSE /\ result' = Returned(call.rhoss[1], None)
                        /\ pc' = "pi_solve"
                        /\ UNCHANGED kwargs
    /\ UNCHANGED <<call, ss_args, A, loc, calls, warned, useUmfpack>>

\* lines 1053-1057 with _pseudo_inverse_sparse and _pseudo_inverse_dense;
\* the matrix returned is kept as the strategy that computed it
pseudo_inverse_solve ==
    /\ pc = "pi_solve"
    /\ pc' = "done"
    /\ LET method == IF ~call.sparse /\ call.method = "splu"
                     THEN "direct" ELSE call.method
           \* rhoss.full(), operator_to_vector(rhoss): rhoss must be a Qobj
           rhoss_ok == result.info = None
           \* prod(L.dims[0][0]), tensor(identity(n) for n in L.dims[0][0])
           dims_ok == issuper(call.A)
           R == [kind |-> "pseudo_inverse", method |-> method,
                 use_rcm |-> call.sparse /\ pseudo_args.use_rcm]
           \* A = L.data.tocsc(); A.sort_indices(), lines 968-969
           sorted == IF call.sparse /\ rhoss_ok /\ dims_ok
                        /\ ~pseudo_args.use_rcm
                     THEN {tocsc(Holder)} ELSE {}
       IN  /\ loc' = Put(loc, "written", Written(loc) \cup sorted)
           /\ IF call.sparse
              THEN IF ~rhoss_ok
                   THEN /\ result' = Raised("AttributeError", "rhoss_tuple", None)
                        /\ UNCHANGED calls
                   ELSE IF ~dims_ok
                   THEN /\ result' = Raised("TypeError", "dims", None)
                        /\ UNCHANGED calls
                   ELSE IF method = "spsolve"
                   THEN \* useUmfpack=use_umfpack: no such name in scope
                        /\ result' = Raised("NameError", "use_umfpack", None)
                        /\ UNCHANGED calls
                   ELSE IF method \in {"splu", "spilu"}
                   THEN /\ result' = Returned(R, None)
                        /\ calls' = Count(calls, "pinv_solve")
                   ELSE /\ result' = Raised("ValueError", "unsupported_method", None)
                        /\ UNCHANGED calls
              ELSE IF method = "direct"
                   THEN IF ~rhoss_ok
                        THEN /\ result' = Raised("AttributeError", "rhoss_tuple", None)
                             /\ UNCHANGED calls
                        ELSE IF ~dims_ok
                        THEN /\ result' = Raised("TypeError", "dims", None)
                             /\ UNCHANGED calls
                        ELSE /\ result' = Returned(R, None)
                             /\ calls' = Count(calls, "pinv_solve")
                   ELSE IF method \in {"numpy", "scipy", "scipy2"}
                   THEN /\ result' = Returned(R, None)
                        /\ calls' = Count(calls, "pinv_solve")
                   ELSE /\ result' = Raised("ValueError", "unsupported_method", None)
                        /\ UNCHANGED calls
    /\ UNCHANGED <<call, kwargs, ss_args, pseudo_args, A, warned, useUmfpack>>


(***************************************************************************)
(* Calls.                                                                  *)
(***************************************************************************)
\* a keyword argument left out, or passed with one of vals
Opt(k, vals) == {<< >>} \cup {k :> x : x \in vals}
Flag(k) == Opt(k, {TRUE})

Oper(t, g) == [type |-> t, g |-> g]

CallSteadystate(X, c_op_list, kw) ==
    [fn |-> "steadystate", A |-> X, c_op_list |-> c_op_list, kwargs |-> kw]
CallBuildPreconditioner(X, c_op_list, kw) ==
    [fn |-> "build_preconditioner", A |-> X, c_op_list |-> c_op_list, kwargs |-> kw]
CallPseudoInverse(X, rhoss, sparse, method, kw) ==
    [fn |-> "pseudo_inverse", A |-> X, c_op_list |-> 0, rhoss |-> rhoss,
     sparse |-> sparse, method |-> method, kwargs |-> kw]

\* calls that exercise validation and dispatch
InputKinds == {Oper("oper", 1), Oper("super", 1), Oper("ket", 1)}
ApiCalls ==
    {CallSteadystate(X, c, bogus @@ m @@ sp @@ al @@ ri @@ mi) :
        X \in InputKinds, c \in 0..1,
        bogus \in Opt("verbose", {TRUE}),
        m \in Opt("method", (Methods \ {"direct"}) \cup {"magic"}),
        sp \in Opt("sparse", {FALSE}),
        al \in Flag("all_states"),
        ri \in Flag("return_info"),
        mi \in {"maxiter" :> k : k \in 0..MaxIter}}
    \cup
    {CallBuildPreconditioner(X, c, bogus @@ m @@ ri @@ w) :
        X \in InputKinds, c \in 0..1,
        bogus \in Opt("verbose", {TRUE}),
        m \in Opt("method", {"power", "magic"}),
        ri \in Flag("return_info"),
        w \in Opt("weight", {Some(MaxWeight)})}
    \cup
    {CallPseudoInverse(X, rhoss, sparse, method, bogus @@ w @@ rcm) :
        X \in {Oper("super", 1)},
        rhoss \in {None, Some(Hermitize(vec2mat(NullVec(Gens[1]))))},
        sparse \in BOOLEAN,
        method \in SparsePinvMethods \cup DensePinvMethods \cup {"magic"},
        bogus \in Opt("verbose", {TRUE}),
        w \in Opt("weight", {Some(MaxWeight)}),
        rcm \in Flag("use_rcm")}

\* calls of the LU-based solvers on a generator, with reordering
ReorderCalls ==
    {CallSteadystate(Oper("super", g), 0, rcm @@ wbm @@ umf @@ ri @@ w) :
        g \in 1..Len(Gens),
        rcm \in Flag("use_rcm"), wbm \in Flag("use_wbm"),
        umf \in Flag("use_umfpack"), ri \in Flag("return_info"),
        w \in Opt("weight", {Some(MaxWeight)})}
    \cup
    {CallSteadystate(Oper("super", g), 0,
                     m @@ rcm @@ wbm @@ x0 @@ ri @@ pre @@ M @@ w) :
        g \in 1..Len(Gens),
        m \in {"method" :> x : x \in IterativeMethods},
        rcm \in Flag("use_rcm"), wbm \in Flag("use_wbm"),
        x0 \in Opt("x0", {<<1, 0, 0, 0>>}),
        ri \in Flag("return_info"),
        pre \in Flag("use_precond"),
        M \in Opt("M", {"M"}),
        w \in Opt("weight", {Some(MaxWeight)})}

\* calls of the power solver
PowerCalls ==
    {CallSteadystate(Oper("super", 1), 0,
                     m @@ mi @@ tol @@ rcm @@ wbm @@ ri @@ pre @@ M) :
        m \in {"method" :> x : x \in PowerMethods},
        mi \in {"maxiter" :> k : k \in 0..MaxIter},
        tol \in Opt("tol", {2}),
        rcm \in Flag("use_rcm"), wbm \in Flag("use_wbm"),
        ri \in Flag("return_info"),
        pre \in Flag("use_precond"),
        M \in Opt("M", {"M"})}

Call(c) ==
    /\ pc = "idle"
    /\ call' = c
    /\ A' = c.A
    /\ kwargs' = IF c.fn = "pseudo_inverse" THEN << >> ELSE c.kwargs
    /\ pc' = IF c.fn = "steadystate" THEN "ss_args"
             ELSE IF c.fn = "build_preconditioner" THEN "bp_args"
             ELSE "pi_args"
    /\ UNCHANGED <<ss_args, pseudo_args, loc, calls, warned, result, useUmfpack>>

\* the call has returned or raised: everything it owned is dropped
Done ==
    /\ pc = "done"
    /\ pc' = "idle"
    /\ call' = NoCall
    /\ kwargs' = << >>
    /\ ss_args' = << >>
    /\ pseudo_args' = << >>
    /\ A' = << >>
    /\ loc' = NoLoc
    /\ calls' = NoCalls
    /\ warned' = {}
    /\ result' = NoResult
    /\ UNCHANGED useUmfpack

SteadystateEntry ==
    \/ steadystate_args
    \/ steadystate_setup
    \/ steadystate_weight
    \/ steadystate_dispatch

Next ==
    \/ \E c \in ApiCalls : Call(c)
    \/ SteadystateEntry
    \/ _steadystate_direct_sparse
    \/ _steadystate_direct_dense
    \/ _steadystate_eigen
    \/ _steadystate_iterative
    \/ _steadystate_svd_dense
    \/ _steadystate_power_start
    \/ _steadystate_power_step
    \/ _steadystate_power_finish
    \/ build_preconditioner_args
    \/ build_preconditioner_build
    \/ pseudo_inverse_args
    \/ pseudo_inverse_solve
    \/ Done

Spec == Init /\ [][Next]_vars

NextReorder ==
    \/ \E c \in ReorderCalls : Call(c)
    \/ SteadystateEntry
    \/ _steadystate_direct_sparse
    \/ _steadystate_iterative
    \/ Done

SpecReorder == Init /\ [][NextReorder]_vars

NextPower ==
    \/ \E c \in PowerCalls : Call(c)
    \/ SteadystateEntry
    \/ _steadystate_power_start
    \/ _steadystate_power_step
    \/ _steadystate_power_finish
    \/ Done

SpecPower == Init /\ [][NextPower]_vars


(***************************************************************************)
(* Properties.                                                             *)
(***************************************************************************)
Running == call.fn # "none"
Ended == pc = "done"
\* the options in effect for the running call, whether or not the frame
\* has built its record yet
Given(k) == k \in DOMAIN call.kwargs
Effective(k) == IF Given(k) THEN call.kwargs[k] ELSE _default_steadystate_args[k]
NoMatrixWork == calls = NoCalls
Invocations == SumSeq([i \in 1..6 |->
                          calls[<<"direct_sparse", "direct_dense", "eigen",
                                  "iterative", "svd", "power">>[i]]])

\* C1: a call of steadystate, build_preconditioner or pseudo_inverse with a
\* keyword that is no recognized option never gets past its option check: it
\* ends raising the invalid-keyword error, and up to and including that
\* moment nothing has been built, inspected, derived, conditioned or solved.
C1_UnknownKeyFailsBeforeWork ==
    (Running /\ UnknownKeys(call.kwargs) # {}) =>
        /\ pc \in {"ss_args", "bp_args", "pi_args", "done"}
        /\ NoMatrixWork
        /\ Ended => result.status = "raised" /\ result.msg = "invalid_kwarg"

C1_Witness ==
    /\ Ended
    /\ call.fn = "steadystate"
    /\ UnknownKeys(call.kwargs) # {}
    /\ call.A.type = "oper" /\ call.c_op_list > 0
    /\ result.status = "raised"

\* C2: a steadystate call with recognized keys only and an unrecognized
\* method ends with the invalid-method error, and the generator builder has
\* not been called, the input has not been inspected and no weight has been
\* derived.
C2_InvalidMethodFailsBeforeWork ==
    (call.fn = "steadystate" /\ UnknownKeys(call.kwargs) = {}
        /\ Effective("method") \notin Methods) =>
        /\ calls["liouvillian"] = 0
        /\ calls["inspect"] = 0
        /\ calls["weight"] = 0
        /\ Ended => result.status = "raised" /\ result.msg = "invalid_method"

\* C3: a steadystate call that returns, returns the pair (result, info)
\* exactly when return_info was set.
C3_ReturnInfoGivesPair ==
    (Ended /\ call.fn = "steadystate" /\ result.status = "returned") =>
        ((result.info # None) <=> Effective("return_info"))

\* the routine the method (and for 'direct' the sparse flag) names
Selected(method, sparse) ==
    CASE method = "direct" /\ sparse -> "direct_sparse"
      [] method = "direct" /\ ~sparse -> "direct_dense"
      [] method = "eigen" -> "eigen"
      [] method \in IterativeMethods -> "iterative"
      [] method = "svd" -> "svd"
      [] method \in PowerMethods -> "power"
      [] OTHER -> "none"

\* the call was turned away by the option or input checks before line 226
Rejected ==
    /\ result.status = "raised"
    /\ result.msg \in {"invalid_kwarg", "non_dissipative", "not_super"}

\* C4: in a steadystate call no more than one solver routine is ever
\* invoked and none twice, the one invoked is the one the method (and the
\* sparse flag) selects, a call with a recognized method that reaches the
\* dispatch has invoked exactly one when it ends, and a call with an
\* unrecognized method invokes none and ends in an error.
C4_ExactlyOneSolver ==
    call.fn = "steadystate" =>
        /\ Invocations <= 1
        /\ \A r \in Routines :
              calls[r] > 0 => r = Selected(Effective("method"), Effective("sparse"))
        /\ (Ended /\ ~Rejected /\ Effective("method") \in Methods) =>
              Invocations = 1
        /\ Effective("method") \notin Methods =>
              Invocations = 0 /\ (Ended => result.status = "raised")

C4_Witness ==
    /\ Ended
    /\ call.fn = "steadystate"
    /\ Effective("method") = "direct" /\ ~Effective("sparse")
    /\ calls["direct_dense"] = 1
    /\ result.status = "returned"

\* C5: once a steadystate call is past its input check: an operator with an
\* empty collapse list, or an input that is neither operator nor
\* superoperator, has ended the call with the invalid-input error and
\* the generator builder was not called; an operator with collapse operators
\* was converted by the builder exactly once; a superoperator is used as it
\* is and the builder was not called, whatever the list holds.
C5_InputValidation ==
    (call.fn = "steadystate" /\ UnknownKeys(call.kwargs) = {}
        /\ pc \notin {"ss_args", "ss_setup"}) =>
        /\ (call.A.type = "oper" /\ call.c_op_list = 0) =>
              /\ Ended /\ result.status = "raised"
              /\ result.type = "TypeError" /\ result.msg = "non_dissipative"
              /\ calls["liouvillian"] = 0
        /\ call.A.type \notin {"oper", "super"} =>
              /\ Ended /\ result.status = "raised"
              /\ result.type = "TypeError" /\ result.msg = "not_super"
              /\ calls["liouvillian"] = 0
        /\ (call.A.type = "oper" /\ call.c_op_list > 0) =>
              /\ calls["liouvillian"] = 1
              /\ A = liouvillian(call.A, call.c_op_list)
              /\ ~Rejected
        /\ call.A.type = "super" =>
              /\ calls["liouvillian"] = 0
              /\ A = call.A
              /\ ~Rejected

C5_Witness ==
    /\ Ended
    /\ call.fn = "steadystate"
    /\ call.A.type = "oper" /\ call.c_op_list > 0
    /\ calls["liouvillian"] = 1
    /\ result.status = "returned"

\* the conditioned system before any reordering, and its solution
Unpermuted(args) ==
    _steadystate_LU_liouvillian(data(A), [args EXCEPT !.use_wbm = FALSE,
                                                      !.use_rcm = FALSE],
                                None, None).L
UnpermutedSolution(args) ==
    LinSolve(Unpermuted(args), Rhs(Len(data(A)), args.weight[1]))

\* C6: when the direct-sparse or the iterative routine returns, the
\* right-hand side it solved against is b permuted with the dominance
\* ordering and then with the fill-reducing ordering, and the vector it
\* reshaped is the solution of the conditioned system without reordering.
C6_SolutionInOriginalOrder ==
    (Ended /\ result.status = "returned"
        /\ loc.routine \in {"direct_sparse", "iterative"}) =>
        /\ loc.b = PermuteRhs(Rhs(Len(data(A)), ss_args.weight[1]),
                              loc.perm, loc.perm2)
        /\ loc.out = UnpermutedSolution(ss_args)

\* C7: the initial guess handed to the Krylov solver is x0 permuted with the
\* dominance ordering and then with the fill-reducing ordering.
C7_InitialGuessPermuted ==
    (loc.routine = "iterative" /\ ss_args.x0 # None) =>
        loc.krylov.x0 = PermuteRhs(ss_args.x0, loc.perm, loc.perm2)

\* C8: a call that asked for a preconditioner and supplied none never ends
\* with the error of a failed incomplete factorization.
C8_PrecondFailureNotFatal ==
    (Ended /\ Effective("use_precond") /\ ~Given("M")) =>
        ~(result.status = "raised" /\ result.msg = "precond_failed")

\* C9: when the iterative routine ends after its Krylov solve: status 0
\* returns a result; a positive status raises the convergence error with the
\* residual norm, a number, as its payload; a negative status raises the
\* solver-failure error.
C9_KrylovStatusDecides ==
    (Ended /\ loc.routine = "iterative") =>
        /\ loc.krylov.check = 0 => result.status = "returned"
        /\ loc.krylov.check > 0 =>
              /\ result.status = "raised" /\ result.msg = "not_converged"
              /\ result.payload # None
        /\ loc.krylov.check < 0 =>
              result.status = "raised" /\ result.msg = "fatal"

\* C10: when the power routine ends after its loop, it has raised the
\* convergence error exactly when the last iterate still fails the test
\* norm_inf(L v) <= tol.
C10_PowerFailsIffUnconverged ==
    (Ended /\ loc.routine = "power") =>
        ((result.status = "raised" /\ result.msg = "power_failed")
            <=> PowerUnconverged(loc.L, loc.v, ss_args.tol))

\* C11: in the power-gmres, power-lgmres and power-bicgstab variants, once an
\* inner Krylov solve has handed back a non-zero status the call has failed:
\* it neither goes on iterating with the partial result nor returns it.
C11_InnerStatusNotSwallowed ==
    (loc.routine = "power" /\ (loc.checks \ {0}) # {}) =>
        (Ended /\ result.status = "raised")

\* the option record a steadystate call made with the caller's own keyword
\* arguments works with once it has passed lines 204-224
DirectArgs ==
    LET args == PermcDefault(Override(_default_steadystate_args, call.kwargs),
                             call.kwargs)
    IN  IF Given("weight") THEN args
        ELSE [args EXCEPT !.weight = Some(DefaultWeight(data(A))),
                          !.info.weight = Some(DefaultWeight(data(A)))]

\* C12: the steadystate solve nested in a pseudo_inverse call that was given
\* no steady state runs, from its dispatch on, with the weight and the
\* column ordering a steadystate call with the caller's options would use.
C12_NestedSolveAsDirectCall ==
    (call.fn = "pseudo_inverse" /\ call.rhoss = None
        /\ UnknownKeys(call.kwargs) = {}
        /\ pc \notin {"pi_args", "ss_args", "ss_setup", "ss_weight"}) =>
        /\ ss_args.weight = DirectArgs.weight
        /\ ss_args.permc_spec = DirectArgs.permc_spec

\* the strategy lines 1053-1057 hand to the dense routine
PinvMethod == IF ~call.sparse /\ call.method = "splu" THEN "direct" ELSE call.method

\* C13: a pseudo_inverse call on a generator, given a steady state, ends
\* returning a matrix when its method is one the chosen (sparse or dense)
\* routine supports, and with the unsupported-method error otherwise.
C13_PinvStrategySelection ==
    (call.fn = "pseudo_inverse" /\ call.rhoss # None /\ issuper(call.A)
        /\ UnknownKeys(call.kwargs) = {} /\ Ended) =>
        IF PinvMethod \in (IF call.sparse THEN SparsePinvMethods
                           ELSE DensePinvMethods)
        THEN /\ result.status = "returned"
             /\ result.value = [kind |-> "pseudo_inverse", method |-> PinvMethod,
                                use_rcm |-> call.sparse /\ pseudo_args.use_rcm]
        ELSE /\ result.status = "raised"
             /\ result.type = "ValueError"
             /\ result.msg = "unsupported_method"

\* M is L with row 0 replaced by the constraint row: weight at the columns
\* k*(n+1), zero elsewhere, every other row as in L
ConstraintRowReplaced(M, L, weight) ==
    LET n == Sqrt(Len(L))
    IN  /\ \A j \in 1..Len(L) :
              M[1][j] = IF \E k \in 0..(n - 1) : j = k * (n + 1) + 1
                        THEN weight ELSE 0
        /\ \A i \in 2..Len(L) : M[i] = L[i]

\* C14: the conditioned matrix the direct sparse, the direct dense and the
\* iterative routine build, before any permutation, is the generator with
\* row 0 replaced by the constraint row.
C14_ConditioningReplacesRow ==
    /\ loc.routine \in {"direct_sparse", "iterative"} =>
          ConstraintRowReplaced(Unpermuted(ss_args), data(A), ss_args.weight[1])
    /\ loc.routine = "direct_dense" =>
          ConstraintRowReplaced(loc.L, data(A), ss_args.weight[1])

\* w is the mean of the absolute values of the stored entries of M
\* (stated without division: w times their number is their sum)
IsMeanAbs(w, M) ==
    LET e == StoredEntries(M)
    IN  w * Len(e) = SumSeq([i \in 1..Len(e) |-> Abs(e[i])])

\* C15: when the caller of steadystate or build_preconditioner passed no
\* weight, the weight the call works with after deriving it is the mean of
\* the absolute values of the generator's stored entries.
C15_WeightIsMeanAbs ==
    (call.fn \in {"steadystate", "build_preconditioner"} /\ ~Given("weight")
        /\ "weight" \in DOMAIN ss_args /\ ss_args.weight # None) =>
        IsMeanAbs(ss_args.weight[1], data(A))

\* C16: when a steadystate call that derived its weight returns diagnostics,
\* the record returned has the derived weight under its weight entry.
C16_WeightInDiagnostics ==
    (call.fn = "steadystate" /\ ~Given("weight") /\ Ended
        /\ result.status = "returned" /\ result.info # None) =>
        /\ "weight" \in DOMAIN result.info[1]
        /\ result.info[1].weight = Some(DefaultWeight(data(A)))

\* calls of every method on every generator
StateCalls ==
    {CallSteadystate(Oper("super", g), 0, m @@ sp @@ al @@ ri @@ mi) :
        g \in 1..Len(Gens),
        m \in Opt("method", Methods),
        sp \in Opt("sparse", {FALSE}),
        al \in Flag("all_states"),
        ri \in Flag("return_info"),
        mi \in {"maxiter" :> MaxIter}}

NextStates ==
    \/ \E c \in StateCalls : Call(c)
    \/ SteadystateEntry
    \/ _steadystate_direct_sparse
    \/ _steadystate_direct_dense
    \/ _steadystate_eigen
    \/ _steadystate_iterative
    \/ _steadystate_svd_dense
    \/ _steadystate_power_start
    \/ _steadystate_power_step
    \/ _steadystate_power_finish
    \/ Done

SpecStates == Init /\ [][NextStates]_vars

\* the density matrices a steadystate call returned: one, or with
\* method='svd' and all_states the list of them
ReturnedStates ==
    IF Effective("method") = "svd" /\ Effective("all_states")
    THEN {result.value[k] : k \in 1..Len(result.value)}
    ELSE {result.value}

\* q equals its own transpose (the model's matrices are real)
IsHermitian(q) == q.num = Transpose(q.num)

\* C17: every density matrix a steadystate call returns equals its own
\* conjugate transpose, whatever the solver's solution vector was.
C17_HermitizedOnEveryPath ==
    (call.fn = "steadystate" /\ Ended /\ result.status = "returned") =>
        \A q \in ReturnedStates : IsHermitian(q)

\* q has trace one: the trace of its numerator is its denominator
HasUnitTrace(q) == q.den # 0 /\ Trace(q.num) = q.den

\* C18: every density matrix a steadystate call returns, by any method, has
\* trace one and is Hermitian.
C18_UnitTraceAndHermitian ==
    (call.fn = "steadystate" /\ Ended /\ result.status = "returned") =>
        \A q \in ReturnedStates : HasUnitTrace(q) /\ IsHermitian(q)

\* calls of the three entry points with and without use_rcm and permc_spec
PermcCalls ==
    {CallSteadystate(Oper("super", g), 0, rcm @@ pcs @@ ri) :
        g \in 1..Len(Gens),
        rcm \in Opt("use_rcm", BOOLEAN),
        pcs \in Opt("permc_spec", {"COLAMD", "MMD_ATA"}),
        ri \in Flag("return_info")}
    \cup
    {CallBuildPreconditioner(Oper("super", g), 0, rcm @@ pcs @@ ri) :
        g \in 1..Len(Gens),
        rcm \in Opt("use_rcm", BOOLEAN),
        pcs \in Opt("permc_spec", {"COLAMD", "MMD_ATA"}),
        ri \in Flag("return_info")}
    \cup
    {CallPseudoInverse(Oper("super", 1), rhoss, TRUE, method, rcm @@ pcs @@ w) :
        rhoss \in {None, Some(Hermitize(vec2mat(NullVec(Gens[1]))))},
        method \in {"splu", "spilu"},
        rcm \in Opt("use_rcm", BOOLEAN),
        pcs \in Opt("permc_spec", {"COLAMD", "MMD_ATA"}),
        w \in {"weight" :> Some(MaxWeight)}}

NextPermc ==
    \/ \E c \in PermcCalls : Call(c)
    \/ SteadystateEntry
    \/ _steadystate_direct_sparse
    \/ build_preconditioner_args
    \/ build_preconditioner_build
    \/ pseudo_inverse_args
    \/ pseudo_inverse_solve
    \/ Done

SpecPermc == Init /\ [][NextPermc]_vars

\* the column ordering the rule of lines 213-215 gives the running call
ExpectedPermc ==
    IF Given("permc_spec") THEN call.kwargs.permc_spec
    ELSE IF Effective("use_rcm") THEN "NATURAL"
    ELSE "COLAMD"

\* C19: once steadystate, build_preconditioner or pseudo_inverse has read
\* its options, the column ordering in its option record (and in the record
\* of a solve nested in pseudo_inverse, and in the diagnostics of the direct
\* solver that used it) is the caller's permc_spec when one was passed,
\* else 'NATURAL' when use_rcm is set, else 'COLAMD'.
C19_PermcSpecRule ==
    (Running /\ UnknownKeys(call.kwargs) = {}) =>
        /\ (call.fn \in {"steadystate", "build_preconditioner"}
                /\ pc \notin {"ss_args", "bp_args"}) =>
              ss_args.permc_spec = ExpectedPermc
        /\ (call.fn = "pseudo_inverse" /\ pc # "pi_args") =>
              /\ pseudo_args.permc_spec = ExpectedPermc
              /\ "permc_spec" \in DOMAIN ss_args =>
                    ss_args.permc_spec = ExpectedPermc
        /\ loc.routine = "direct_sparse" =>
              ss_args.info.permc_spec = Some(ExpectedPermc)

C19_Witness ==
    /\ Ended
    /\ call.fn = "pseudo_inverse" /\ call.rhoss = None
    /\ Effective("use_rcm") /\ ~Given("permc_spec")
    /\ loc.routine = "direct_sparse"
    /\ ss_args.permc_spec = "NATURAL"
    /\ result.status = "returned"

\* calls that follow one another with different solver settings
SeqCalls ==
    {CallSteadystate(Oper("super", 1), 0, umf @@ rcm @@ wbm @@ ri) :
        umf \in Opt("use_umfpack", BOOLEAN),
        rcm \in Flag("use_rcm"), wbm \in Flag("use_wbm"),
        ri \in Flag("return_info")}
    \cup
    {CallSteadystate(Oper("super", 1), 0, m @@ mi @@ rcm @@ ri) :
        m \in {"method" :> "power"},
        mi \in {"maxiter" :> MaxIter},
        rcm \in Flag("use_rcm"),
        ri \in Flag("return_info")}
    \cup
    {CallBuildPreconditioner(Oper("super", 1), 0, rcm @@ ri) :
        rcm \in Flag("use_rcm"),
        ri \in {"return_info" :> TRUE}}
    \cup
    {CallPseudoInverse(Oper("super", 1), None, TRUE, "splu", umf @@ rcm @@ w) :
        umf \in Flag("use_umfpack"),
        rcm \in Flag("use_rcm"),
        w \in {"weight" :> Some(MaxWeight)}}

NextSeq ==
    \/ \E c \in SeqCalls : Call(c)
    \/ SteadystateEntry
    \/ _steadystate_direct_sparse
    \/ _steadystate_power_start
    \/ _steadystate_power_step
    \/ _steadystate_power_finish
    \/ build_preconditioner_args
    \/ build_preconditioner_build
    \/ pseudo_inverse_args
    \/ pseudo_inverse_solve
    \/ Done

SpecSeq == Init /\ [][NextSeq]_vars

\* a diagnostics record nothing has been written to
FreshInfo(info) ==
    /\ info.perm = << >>
    /\ \A k \in {"solution_time", "iterations", "residual_norm", "rcm_time",
                 "wbm_time", "iter_time", "precond_time"} : info[k] = None

\* the permutation history the running call's own options produce
OwnPerm ==
    (IF Effective("use_wbm") THEN << "wbm" >> ELSE << >>)
        \o (IF Effective("use_rcm") THEN << "rcm" >> ELSE << >>)

\* C20: in any sequence of calls, a call starts from the default options
\* overridden by its own keywords and from an empty diagnostics record, the
\* diagnostics it returns hold the permutation history of its own options
\* only, and the factorization its direct solve runs with is the one its
\* own use_umfpack selects, whatever earlier calls have set.
C20_NoStateAcrossCalls ==
    /\ (call.fn \in {"steadystate", "build_preconditioner"}
            /\ pc \in {"ss_setup", "bp_build"}) =>
          /\ FreshInfo(ss_args.info)
          /\ \A k \in Keys \ {"info", "permc_spec", "method"} :
                ss_args[k] = Effective(k)
    /\ (call.fn = "pseudo_inverse" /\ pc = "ss_args") =>
          FreshInfo(pseudo_args.info)
    /\ (Running /\ Ended /\ result.status = "returned" /\ result.info # None) =>
          result.info[1].perm = OwnPerm
    /\ loc.routine = "direct_sparse" =>
          /\ useUmfpack = Effective("use_umfpack")
          /\ loc.solver = IF Effective("use_umfpack") THEN "umfpack" ELSE "splu"

C20_Witness ==
    /\ useUmfpack
    /\ call.fn = "steadystate" /\ ~Given("use_umfpack")
    /\ Ended /\ result.status = "returned"
    /\ Effective("method") = "power"

\* calls of every entry point on an operator and on a superoperator, with and
\* without a preconditioner M and an initial guess x0 of the caller's
FrameCalls ==
    {CallSteadystate(X, 1, m @@ sp @@ rcm @@ pre @@ M @@ x0 @@ mi) :
        X \in {Oper("oper", 1), Oper("super", 1)},
        m \in Opt("method", Methods),
        sp \in Opt("sparse", {FALSE}),
        rcm \in Flag("use_rcm"),
        pre \in Flag("use_precond"),
        M \in Opt("M", {"M"}),
        x0 \in Opt("x0", {<<1, 0, 0, 0>>}),
        mi \in {"maxiter" :> MaxIter}}
    \cup
    {CallBuildPreconditioner(X, 1, rcm @@ M @@ x0) :
        X \in {Oper("oper", 1), Oper("super", 1)},
        rcm \in Flag("use_rcm"),
        M \in Opt("M", {"M"}),
        x0 \in Opt("x0", {<<1, 0, 0, 0>>})}
    \cup
    {CallPseudoInverse(Oper("super", 1), rhoss, sparse, method,
                       rcm @@ M @@ x0 @@ w) :
        rhoss \in {None, Some(Hermitize(vec2mat(NullVec(Gens[1]))))},
        sparse \in BOOLEAN,
        method \in {"splu", "spilu", "numpy"},
        rcm \in Flag("use_rcm"),
        M \in Opt("M", {"M"}),
        x0 \in Opt("x0", {<<1, 0, 0, 0>>}),
        w \in {"weight" :> Some(MaxWeight)}}

NextFrame ==
    \/ \E c \in FrameCalls : Call(c)
    \/ SteadystateEntry
    \/ _steadystate_direct_sparse
    \/ _steadystate_direct_dense
    \/ _steadystate_eigen
    \/ _steadystate_iterative
    \/ _steadystate_svd_dense
    \/ _steadystate_power_start
    \/ _steadystate_power_step
    \/ _steadystate_power_finish
    \/ build_preconditioner_args
    \/ build_preconditioner_build
    \/ pseudo_inverse_args
    \/ pseudo_inverse_solve
    \/ Done

SpecFrame == Init /\ [][NextFrame]_vars

\* the option record of the running frame still holds the caller's value of
\* option k, when the caller gave one
CallerValueKept(k) ==
    Given(k) =>
        /\ k \in DOMAIN ss_args => ss_args[k] = call.kwargs[k]
        /\ k \in DOMAIN pseudo_args => pseudo_args[k] = call.kwargs[k]

\* C21: no solver path and no conditioning step changes an input of the
\* caller.  At every moment of a steadystate, build_preconditioner or
\* pseudo_inverse call, up to and including its return or its failure, no
\* object written to in place (row replacement, index sorting) is held by
\* the caller, a superoperator passed in is still the generator the frame
\* works from, and the caller's M and x0 are still the values in the option
\* record and the values the Krylov solver was handed.
C21_CallerInputsNotMutated ==
    Running =>
        /\ \A obj \in Written(loc) : obj.holder # "caller"
        /\ issuper(call.A) /\ A # << >> => A = call.A
        /\ CallerValueKept("M")
        /\ CallerValueKept("x0")
        /\ "krylov" \in DOMAIN loc /\ Given("M") => loc.krylov.M = call.kwargs.M

\* a call on the caller's own superoperator, with the caller's M and x0, has
\* returned after a routine sorted the indices of its conditioned matrix
C21_Witness ==
    /\ Ended
    /\ result.status = "returned"
    /\ issuper(call.A)
    /\ Given("M") /\ Given("x0")
    /\ Written(loc) # {}

====
